---- MODULE Spec2Model ----
(***************************************************************************)
(* firmware-controller: the #[controller] macro's field expansion          *)
(* (src/src/controller/item_struct.rs) and the program it generates: the   *)
(* owning struct with its constructor and set_<field> mutators, one static  *)
(* embassy_sync Watch channel per published field, and one subscriber       *)
(* Stream type per published field.                                         *)
(***************************************************************************)
EXTENDS Integers, Sequences, FiniteSets, TLC

(***************************************************************************)
(* Bounds of the model and constants of the program.                       *)
(***************************************************************************)
\* Sends explored, over all channels.
MaxWrites == 3
\* Items of the modules handed to the macro.
MaxItems == 3
\* const BROADCAST_MAX_SUBSCRIBERS: usize = 16 (the N of every Watch).
BROADCAST_MAX_SUBSCRIBERS == 16
\* const SIGNAL_CHANNEL_CAPACITY: usize = 8 (the depth of a signal's queue).
SIGNAL_CHANNEL_CAPACITY == 8
\* Signals emitted: one more than the queue holds, so that the oldest is pushed out.
MaxEmits == 9

\* Option<T>: None is the empty sequence, Some(x) the one-element sequence.
None == << >>
Some(x) == << x >>
IsSome(opt) == Len(opt) = 1
Unwrap(opt) == opt[1]

(***************************************************************************)
(* Generation time: the struct declaration handed to the macro.  A field   *)
(* is [ident, ty, attrs]; an attribute is [path, metas]; a meta item of a  *)
(* #[controller(...)] list is [name, paren, nested, eq, lit]:              *)
(*   name            the item's path (publish, getter, setter, ...)        *)
(*   paren, nested   publish(...) and the identifiers between the parens   *)
(*   eq, lit         getter = "lit" / setter = "lit"                       *)
(***************************************************************************)
Meta(name) == [name |-> name, paren |-> FALSE, nested |-> << >>, eq |-> FALSE, lit |-> ""]
MetaNested(name, idents) == [name |-> name, paren |-> TRUE, nested |-> idents, eq |-> FALSE, lit |-> ""]
MetaEq(name, lit) == [name |-> name, paren |-> FALSE, nested |-> << >>, eq |-> TRUE, lit |-> lit]
Controller(metas) == [path |-> "controller", metas |-> metas]
NamedField(ident, ty, attrs) == [ident |-> ident, ty |-> ty, attrs |-> attrs]

\* Result<T>: Ok(v) or Err(message).  The messages are the source's, with an
\* apostrophe where the source quotes a name in backquotes.
Ok(v) == [ok |-> TRUE, val |-> v, err |-> ""]
Err(e) == [ok |-> FALSE, val |-> << >>, err |-> e]

\* ControllerAttrs::default()
ControllerAttrs == [publish |-> FALSE, pub_setter |-> FALSE, getter_name |-> None, setter_name |-> None]

\* The loop over the identifiers between the parentheses of a publish item.
RECURSIVE parse_publish_nested(_, _, _)
parse_publish_nested(nested, i, attrs) ==
    IF i > Len(nested) THEN Ok(attrs)
    ELSE IF nested[i] = "pub_setter"
         THEN parse_publish_nested(nested, i + 1, [attrs EXCEPT !.pub_setter = TRUE])
         ELSE Err("expected 'pub_setter', found '" \o nested[i] \o "'")

\* The closure given to attr.parse_nested_meta, for one meta item.
parse_meta(field_name, meta, attrs) ==
    IF meta.name = "publish" THEN
        LET published == [attrs EXCEPT !.publish = TRUE] IN
        IF meta.paren THEN parse_publish_nested(meta.nested, 1, published)
        ELSE Ok(published)
    ELSE IF meta.name = "getter" THEN
        Ok([attrs EXCEPT !.getter_name = IF meta.eq THEN Some(meta.lit) ELSE Some(field_name)])
    ELSE IF meta.name = "setter" THEN
        Ok([attrs EXCEPT !.setter_name = IF meta.eq THEN Some(meta.lit)
                                         ELSE Some("set_" \o field_name)])
    ELSE Err("expected 'publish', 'getter', or 'setter', found '" \o meta.name \o "'")

\* attr.parse_nested_meta: the closure on each item in turn, returning the first error.
RECURSIVE parse_nested_meta(_, _, _, _)
parse_nested_meta(field_name, metas, i, attrs) ==
    IF i > Len(metas) THEN Ok(attrs)
    ELSE LET r == parse_meta(field_name, metas[i], attrs) IN
         IF r.ok THEN parse_nested_meta(field_name, metas, i + 1, r.val) ELSE r

\* field.attrs.iter().find(|attr| attr.path().is_ident("controller")): the index of
\* the first controller attribute, 0 when there is none.
find_controller(attrs) ==
    LET hits == {i \in 1..Len(attrs) : attrs[i].path = "controller"} IN
    IF hits = {} THEN 0 ELSE CHOOSE i \in hits : \A j \in hits : i <= j

\* field.attrs.retain(|attr| !attr.path().is_ident("controller"))
retain_other(attrs) == SelectSeq(attrs, LAMBDA a : a.path # "controller")

\* parse_controller_attrs: Ok([attrs, field]) with the field as it is left, or Err.
parse_controller_attrs(field) ==
    LET at == find_controller(field.attrs) IN
    IF at = 0 THEN Ok([attrs |-> ControllerAttrs, field |-> field])
    ELSE LET r == parse_nested_meta(field.ident, field.attrs[at].metas, 1, ControllerAttrs) IN
         IF r.ok
         THEN Ok([attrs |-> r.val, field |-> [field EXCEPT !.attrs = retain_other(field.attrs)]])
         ELSE r

\* StructField::parse: the parsed attributes, the stripped field, and whether publish
\* code (sender, set_<field>, Watch static, subscriber type) is generated for it.
StructField_parse(field) ==
    LET r == parse_controller_attrs(field) IN
    IF r.ok
    THEN Ok([field |-> r.val.field, attrs |-> r.val.attrs, published |-> r.val.attrs.publish])
    ELSE r

\* StructFields::parse: every field in declaration order, the first error aborts;
\* a tuple or unit struct (fields.named = FALSE) is an error.
RECURSIVE StructFields_collect(_, _, _)
StructFields_collect(fields, i, acc) ==
    IF i > Len(fields) THEN Ok(acc)
    ELSE LET r == StructField_parse(fields[i]) IN
         IF r.ok THEN StructFields_collect(fields, i + 1, Append(acc, r.val)) ELSE r

StructFields_parse(input) ==
    IF input.named THEN StructFields_collect(input.fields, 1, << >>)
    ELSE Err("controller struct must have only named fields")

\* StructFields::published / with_getter / with_setter
published(struct_fields) == SelectSeq(struct_fields, LAMBDA f : f.published)
with_getter(struct_fields) == SelectSeq(struct_fields, LAMBDA f : IsSome(f.attrs.getter_name))
with_setter(struct_fields) ==
    SelectSeq(struct_fields, LAMBDA f : IsSome(f.attrs.setter_name) \/ f.attrs.pub_setter)

Map(seq, Op(_)) == [i \in 1..Len(seq) |-> Op(seq[i])]

\* GetterFieldInfo of one field with a getter.
GetterFieldInfo(f) ==
    [field_name |-> f.field.ident, field_type |-> f.field.ty,
     getter_name |-> Unwrap(f.attrs.getter_name)]

\* A descriptor that names no internal setter, as for an unpublished field: C9 tells
\* SetterFieldInfo from it.
SetterFieldInfo_direct(f) ==
    [field_name |-> f.field.ident, field_type |-> f.field.ty,
     setter_name |-> IF IsSome(f.attrs.setter_name) THEN Unwrap(f.attrs.setter_name)
                     ELSE "set_" \o f.field.ident,
     internal_setter_name |-> None]

\* SetterFieldInfo of one field with a setter: the public (client) setter name, and the
\* internal setter the client's setter calls when the field is published.
SetterFieldInfo(f) ==
    [field_name |-> f.field.ident, field_type |-> f.field.ty,
     setter_name |-> IF IsSome(f.attrs.setter_name) THEN Unwrap(f.attrs.setter_name)
                     ELSE "set_" \o f.field.ident,
     internal_setter_name |-> IF f.attrs.publish THEN Some("set_" \o f.field.ident) ELSE None]

\* PublishedFieldInfo of one published field (generate_publish_code's info).
PublishedFieldInfo(f) == [field_name |-> f.field.ident, field_type |-> f.field.ty]

\* item_struct::expand: the ExpandedStruct of a struct declaration, or the first error.
expand(input) ==
    LET struct_fields == StructFields_parse(input) IN
    IF ~struct_fields.ok THEN struct_fields
    ELSE Ok([struct_name |-> input.ident,
             fields |-> Map(struct_fields.val, LAMBDA f : f.field),
             published_fields |-> Map(published(struct_fields.val), PublishedFieldInfo),
             getter_fields |-> Map(with_getter(struct_fields.val), GetterFieldInfo),
             setter_fields |-> Map(with_setter(struct_fields.val), SetterFieldInfo)])

Range(seq) == {seq[i] : i \in 1..Len(seq)}

(***************************************************************************)
(* The declarations explored.  TestController is the module of             *)
(* tests/integration.rs; BareController marks the same fields with the     *)
(* bare forms (setter before publish, a published field without setter,    *)
(* a field without any marker).  SoloController has one published field    *)
(* with both accessors renamed, and an unpublished field with both.        *)
(***************************************************************************)
TestController ==
    [ident |-> "Controller", named |-> TRUE, fields |-> <<
        NamedField("state", "State", << Controller(<< Meta("publish"),
            MetaEq("getter", "get_current_state"), MetaEq("setter", "change_state") >>) >>),
        NamedField("mode", "Mode", << Controller(<< MetaNested("publish", << "pub_setter" >>),
            Meta("getter") >>) >>),
        NamedField("counter", "u32", << Controller(<< Meta("setter") >>) >>) >>]

BareController ==
    [ident |-> "Controller", named |-> TRUE, fields |-> <<
        NamedField("state", "State", << Controller(<< Meta("setter"), Meta("publish") >>) >>),
        NamedField("mode", "Mode", << Controller(<< Meta("publish") >>) >>),
        NamedField("counter", "u32", << >>) >>]

SoloController ==
    [ident |-> "Controller", named |-> TRUE, fields |-> <<
        NamedField("state", "State", << Controller(<< Meta("publish"),
            MetaEq("getter", "get_current_state"), MetaEq("setter", "change_state") >>) >>),
        NamedField("counter", "u32", << Controller(<< Meta("getter"), Meta("setter") >>) >>) >>]

Inputs == {TestController, BareController, SoloController}

\* Declarations the macro has to refuse, all of SoloController's shape: a marker that
\* is none of publish, getter, setter; an identifier inside publish(...) that is not
\* pub_setter; such a marker in a second #[controller(...)] attribute of the field;
\* and a tuple struct.
UnknownMarker ==
    [ident |-> "Controller", named |-> TRUE, fields |-> <<
        NamedField("state", "State", << Controller(<< Meta("publish"), Meta("bogus") >>) >>) >>]
UnknownNested ==
    [ident |-> "Controller", named |-> TRUE, fields |-> <<
        NamedField("state", "State",
                   << Controller(<< MetaNested("publish", << "pub_setter", "extra" >>) >>) >>) >>]
SecondAttribute ==
    [ident |-> "Controller", named |-> TRUE, fields |-> <<
        NamedField("state", "State", << Controller(<< Meta("publish") >>),
                                        Controller(<< Meta("bogus") >>) >>) >>]
TupleStruct == [ident |-> "Controller", named |-> FALSE, fields |-> << >>]

(***************************************************************************)
(* Module assembly: controller::expand_module on the annotated module, and *)
(* the macro entry point that turns its Result into the macro's output.    *)
(* A module is [vis, ident, content]; content is None for "mod m;" and     *)
(* Some(items) otherwise.  An item is a struct (with its declaration), an  *)
(* impl block (with its self type) or any other item.  A self type is      *)
(* [path, segments, args]: path tells a Type::Path from any other type,    *)
(* segments are the path's identifiers, args tells generic arguments.      *)
(***************************************************************************)
ItemStruct(decl) == [kind |-> "struct", decl |-> decl]
ItemImpl(self_ty, fails) == [kind |-> "impl", self_ty |-> self_ty, fails |-> fails]
ItemOther(name) == [kind |-> "other", name |-> name]
TypePath(segments) == [path |-> TRUE, segments |-> segments, args |-> FALSE]

\* Path::get_ident: the identifier of a path of one segment without arguments.
get_ident(ty) == IF Len(ty.segments) = 1 /\ ~ty.args THEN Some(ty.segments[1]) ELSE None

\* item_impl::expand(impl_item, &published_fields): the client, the run loop and the
\* signal types of the impl block, or the error it reports.
item_impl_expand(impl_item, published_fields) ==
    IF impl_item.fails THEN Err("impl block: expansion failed")
    ELSE Ok([self_ty |-> impl_item.self_ty, published_fields |-> published_fields])

\* The state of one run of the macro: the place in expand_module, its locals, the
\* Result it returns and the token stream the macro hands back to the compiler.
Start(module) ==
    [module |-> module, pc |-> "body", i |-> 1,
     struct_item |-> None, impl_item |-> None, other_items |-> << >>,
     expanded_struct |-> None, expanded_impl |-> None,
     result |-> None, output |-> None]

\* return Err(e), or the ? operator on an Err.
Return(a, r) == [a EXCEPT !.pc = "return", !.result = Some(r)]

\* input.content.ok_or_else(..)?
body(a) ==
    IF IsSome(a.module.content) THEN [a EXCEPT !.pc = "partition"]
    ELSE Return(a, Err("Module must have a body"))

\* A loop that keeps the last struct and the last impl block it meets: C13 tells
\* partition from it.
partition_last_wins(a) ==
    LET items == Unwrap(a.module.content) IN
    IF a.i > Len(items) THEN [a EXCEPT !.pc = "struct_required"]
    ELSE LET item == items[a.i] IN
         IF item.kind = "struct" THEN [a EXCEPT !.struct_item = Some(item), !.i = @ + 1]
         ELSE IF item.kind = "impl" THEN [a EXCEPT !.impl_item = Some(item), !.i = @ + 1]
         ELSE [a EXCEPT !.other_items = Append(@, item), !.i = @ + 1]

\* One turn of the loop over the items; after the last item the loop is left.
partition(a) ==
    LET items == Unwrap(a.module.content) IN
    IF a.i > Len(items) THEN [a EXCEPT !.pc = "struct_required"]
    ELSE LET item == items[a.i] IN
         IF item.kind = "struct" THEN
             IF IsSome(a.struct_item)
             THEN Return(a, Err("Module must contain exactly one struct definition"))
             ELSE [a EXCEPT !.struct_item = Some(item), !.i = @ + 1]
         ELSE IF item.kind = "impl" THEN
             IF IsSome(a.impl_item)
             THEN Return(a, Err("Module must contain exactly one impl block"))
             ELSE [a EXCEPT !.impl_item = Some(item), !.i = @ + 1]
         ELSE [a EXCEPT !.other_items = Append(@, item), !.i = @ + 1]

\* struct_item.ok_or_else(..)?
struct_required(a) ==
    IF IsSome(a.struct_item) THEN [a EXCEPT !.pc = "impl_required"]
    ELSE Return(a, Err("Module must contain a struct definition for the controller"))

\* impl_item.ok_or_else(..)?
impl_required(a) ==
    IF IsSome(a.impl_item) THEN [a EXCEPT !.pc = "validate"]
    ELSE Return(a, Err("Module must contain an impl block for the controller"))

\* The name check: made when the impl's self type is a path that is one identifier.
validate(a) ==
    LET struct_name == Unwrap(a.struct_item).decl.ident
        self_ty == Unwrap(a.impl_item).self_ty
    IN IF self_ty.path /\ IsSome(get_ident(self_ty)) /\ Unwrap(get_ident(self_ty)) # struct_name
       THEN Return(a, Err("Impl block is for type '" \o Unwrap(get_ident(self_ty))
                          \o "' but controller struct is named '" \o struct_name \o "'"))
       ELSE [a EXCEPT !.pc = "expand_struct"]

\* let expanded_struct = item_struct::expand(struct_item)?
expand_struct(a) ==
    LET r == expand(Unwrap(a.struct_item).decl) IN
    IF r.ok THEN [a EXCEPT !.pc = "expand_impl", !.expanded_struct = Some(r.val)]
    ELSE Return(a, r)

\* let expanded_impl = item_impl::expand(impl_item, &expanded_struct.published_fields)?
expand_impl(a) ==
    LET r == item_impl_expand(Unwrap(a.impl_item), Unwrap(a.expanded_struct).published_fields) IN
    IF r.ok THEN [a EXCEPT !.pc = "emit", !.expanded_impl = Some(r.val)]
    ELSE Return(a, r)

\* Ok(quote! { #vis mod #mod_name { #(#other_items)* #struct_tokens #expanded_impl } })
emit(a) ==
    Return(a, Ok([vis |-> a.module.vis, mod_name |-> a.module.ident,
                  other_items |-> a.other_items,
                  struct_tokens |-> Unwrap(a.expanded_struct),
                  expanded_impl |-> Unwrap(a.expanded_impl)]))

\* A macro that hands back the passthrough items beside the diagnostic: C16 tells
\* controller from it.
controller_keeps_items(a) ==
    LET r == Unwrap(a.result) IN
    [a EXCEPT !.pc = "done",
              !.output = Some(IF r.ok THEN [module |-> Some(r.val), compile_error |-> None]
                              ELSE [module |-> Some(a.other_items),
                                    compile_error |-> Some(r.err)])]

\* The macro: expand_module(input).unwrap_or_else(|e| e.to_compile_error()).into()
controller(a) ==
    LET r == Unwrap(a.result) IN
    [a EXCEPT !.pc = "done",
              !.output = Some(IF r.ok THEN [module |-> Some(r.val), compile_error |-> None]
                              ELSE [module |-> None, compile_error |-> Some(r.err)])]

\* One step of the run.
step(a) ==
    CASE a.pc = "body" -> body(a)
      [] a.pc = "partition" -> partition(a)
      [] a.pc = "struct_required" -> struct_required(a)
      [] a.pc = "impl_required" -> impl_required(a)
      [] a.pc = "validate" -> validate(a)
      [] a.pc = "expand_struct" -> expand_struct(a)
      [] a.pc = "expand_impl" -> expand_impl(a)
      [] a.pc = "emit" -> emit(a)
      [] a.pc = "return" -> controller(a)

\* The whole run.
RECURSIVE run(_)
run(a) == IF a.pc = "done" THEN a ELSE run(step(a))

\* The module the test hands to the macro, for a struct declaration: the struct, its
\* impl block and the use item.
ModuleOf(decl) ==
    [vis |-> "", ident |-> "test_controller",
     content |-> Some(<< ItemOther("use"), ItemStruct(decl),
                         ItemImpl(TypePath(<< decl.ident >>), FALSE) >>)]

\* The items the modules explored are made of, and the modules: every sequence of at
\* most MaxItems of them, and the module without a body.
ItemPool ==
    {ItemStruct(d) : d \in {SoloController, UnknownMarker, UnknownNested, SecondAttribute,
                            TupleStruct}}
    \cup {ItemImpl(TypePath(<< "Controller" >>), FALSE),
          ItemImpl(TypePath(<< "Controller" >>), TRUE),
          ItemImpl(TypePath(<< "Other" >>), FALSE),
          ItemImpl(TypePath(<< "other", "Thing" >>), FALSE)}
    \cup {ItemOther("use")}
Modules ==
    {[vis |-> "pub", ident |-> "m", content |-> None]}
    \cup {[vis |-> "pub", ident |-> "m", content |-> Some(items)] :
              items \in UNION {[1..k -> ItemPool] : k \in 0..MaxItems}}

\* The values of the field types of tests/integration.rs.
TypeVals(ty) ==
    CASE ty = "State" -> {"Idle", "Active", "Error"}
      [] ty = "Mode" -> {"Normal", "Debug"}
      [] ty = "u32" -> {0, 100}

\* The constructor arguments explored, by field: the test's Controller::new(State::Idle,
\* Mode::Normal, 0) and one more.
NewArgs == { [state |-> "Idle", mode |-> "Normal", counter |-> 0],
             [state |-> "Error", mode |-> "Debug", counter |-> 100] }

(***************************************************************************)
(* embassy_sync::watch::Watch<CriticalSectionRawMutex, T, N>, as the       *)
(* generated code uses it.  Every operation runs inside one critical       *)
(* section, so each is one atomic step on the channel's state:             *)
(*   data            Option<T>, the latest value                           *)
(*   current_id      the number of sends so far                            *)
(*   receiver_count  the Receivers alive                                   *)
(*   wakers          the tasks whose waker is registered                   *)
(***************************************************************************)
\* A channel born with a value: C2 tells Watch::new() from it.
Watch_preset == [data |-> Some("Idle"), current_id |-> 0, receiver_count |-> 0, wakers |-> {}]

\* static <STRUCT>_<FIELD>_WATCH = Watch::new()
Watch_new == [data |-> None, current_id |-> 0, receiver_count |-> 0, wakers |-> {}]

\* Three channels that are not a Watch.  One keeps the first value it was sent: C1
\* tells send from it.  One stores a value without advancing the id: C5 tells send
\* from it.  One ignores a value equal to the one it holds: C6 tells send from it.
send_first_kept(w, value) ==
    [w EXCEPT !.data = IF IsSome(w.data) THEN w.data ELSE Some(value),
              !.current_id = @ + 1, !.wakers = {}]
send_unnumbered(w, value) == [w EXCEPT !.data = Some(value), !.wakers = {}]
send_if_changed(w, value) ==
    IF w.data = Some(value) THEN w
    ELSE [w EXCEPT !.data = Some(value), !.current_id = @ + 1, !.wakers = {}]

\* Sender::send(value): store the value, advance the id, wake every registered waker.
send(w, value) ==
    [w EXCEPT !.data = Some(value), !.current_id = @ + 1, !.wakers = {}]

\* A rendezvous channel, whose sender waits while a receiver holds a value: C7 tells
\* send_blocks from it.
send_awaits_reader(w) == w.receiver_count > 0 /\ IsSome(w.data)

\* Whether a send has to wait.  Sender::send is a plain fn called without .await: it
\* takes the critical section, stores and returns, whatever the receivers did.
send_blocks(w) == FALSE

\* A channel that never runs out of receivers: C20 tells receiver_available from it.
receiver_unbounded(w) == TRUE

\* Watch::receiver(): Some(receiver at id 0) while fewer than N receivers are alive.
receiver_available(w) == w.receiver_count < BROADCAST_MAX_SUBSCRIBERS

\* Receiver::try_get(): the receiver's at_id becomes current_id; returns data.clone().
try_get(w) == [at_id |-> w.current_id, value |-> w.data]

\* A receiver that reports the value it holds at every poll: C4 tells changed() from it.
changed_always(w, at_id) == IsSome(w.data)

\* Receiver::changed() polled once: Ready(value) when a value exists and a send
\* happened after at_id, else the task's waker is registered and the poll is Pending.
changed_ready(w, at_id) == IsSome(w.data) /\ w.current_id > at_id

(***************************************************************************)
(* The channel of a signal: a queue of the last SIGNAL_CHANNEL_CAPACITY    *)
(* events, each with the number of its emission, and the count of its      *)
(* subscribers.  A subscriber keeps a cursor, the number of the next event *)
(* it is to read.                                                          *)
(***************************************************************************)
Signal_new == [next |-> 0, queue |-> << >>, subscribers |-> 0]

\* A queue that keeps the newest event only: C17 tells publish from it.
publish_newest_only(ch, args) ==
    [ch EXCEPT !.queue = << [id |-> ch.next, args |-> args] >>, !.next = @ + 1]

\* The emission of a signal: the event is put at the end of the queue, the oldest one
\* leaving it when the queue is full; the emitter never waits.
publish(ch, args) ==
    [ch EXCEPT !.queue = Append(IF Len(@) = SIGNAL_CHANNEL_CAPACITY THEN Tail(@) ELSE @,
                                [id |-> ch.next, args |-> args]),
               !.next = @ + 1]

\* The event a subscriber at cursor reads next: the oldest one of the queue that it
\* has not read.  Events that left the queue before it read them are lost to it.
next_message(ch, cursor) ==
    LET unread == {i \in 1..Len(ch.queue) : ch.queue[i].id >= cursor} IN
    IF unread = {} THEN None
    ELSE Some(ch.queue[CHOOSE i \in unread : \A j \in unread : i <= j])

(***************************************************************************)
(* The state of the generated program.                                     *)
(***************************************************************************)
VARIABLES
    sig,        \* the channel of a signal, its subscribers, and the last event emitted
    asm,        \* the run of the macro on the annotated module (None when it is over)
    input,      \* the struct declaration the macro was applied to
    gen,        \* its ExpandedStruct
    owner,      \* the instances of the owning type, in order of construction
    watch,      \* the static Watch channel of each published field
    sub,        \* the subscriber handles of the client tasks, in order of creation
    written,    \* history: per channel, the number of values written, the first, the last
    assigned,   \* history: per instance and field, the last value given to the field
    holders     \* per channel, the subscribers other clients hold without polling them

vars == << sig, asm, input, gen, owner, watch, sub, written, assigned, holders >>

\* The client task that subscribes to the signal and polls its subscriber; the
\* subscribers other clients hold only count.
SigSubIds == {1}

\* A signal subscriber: since is the number of emissions at its creation, last and got
\* the result of its last poll, nyields the number of events it has yielded (history).
NoSigSub == [status |-> "none", cursor |-> 0, since |-> 0, last |-> "none", got |-> None,
             nyields |-> 0]

\* No signal emitted, others subscribers held by other clients.
NoSignal(others) ==
    [ch |-> [Signal_new EXCEPT !.subscribers = others],
     sub |-> [s \in SigSubIds |-> NoSigSub], emitted |-> None]

\* The arguments of error_occurred(code, ..) explored.
SignalArgs == {42, 7}

\* The instances of the owning type: the one the program constructs and, in
\* RebuildSpec, a second one.  The client tasks: two, each holding one subscriber.
OwnerIds == {1, 2}
SubIds == {1, 2}

FieldNames == {gen.fields[i].ident : i \in 1..Len(gen.fields)}
PublishedNames == {gen.published_fields[i].field_name : i \in 1..Len(gen.published_fields)}
FieldIndex(f) == CHOOSE i \in 1..Len(gen.fields) : gen.fields[i].ident = f
FieldType(f) == gen.fields[FieldIndex(f)].ty

NoOwner == [status |-> "none", self |-> None]

\* A subscriber: chan and at_id are its Receiver, first_poll its flag; pc is the place
\* of a poll_next call in progress, parked tells that its task's last poll returned
\* Pending and no waker of it was woken since.  The rest is history: born is the number of writes
\* at creation, last the result of the last poll that returned (with got, the value
\* of a Ready), nyields the number of values yielded, missed the number of writes that
\* were overwritten before the subscriber read them, skipped the number of writes
\* between the one its last Ready poll yielded and the one the subscriber had read
\* before that poll, orphan tells that it was created
\* after the owner was dropped, refused that a creation returned None to this client
\* (chan is then the channel asked for).
NoSub == [status |-> "none", chan |-> "", first_poll |-> FALSE, at_id |-> 0, pc |-> "idle",
          born |-> 0, last |-> "none", got |-> None, nyields |-> 0, missed |-> 0,
          skipped |-> 0, parked |-> FALSE, orphan |-> FALSE, refused |-> FALSE]

NoWrites == [n |-> 0, first |-> None, last |-> None, repeat |-> FALSE]

\* History: one more value sent on a channel; repeat tells that it equals the one
\* sent before it.
Record(h, value) ==
    [n |-> h.n + 1, first |-> IF h.n = 0 THEN Some(value) ELSE h.first, last |-> Some(value),
     repeat |-> h.last = Some(value)]

\* The initial state for a declaration: the macro's run on its module is over and
\* emitted the module, the statics are Watch::new(), nothing is constructed and no
\* subscriber exists.
ProgramInit(decls) ==
    /\ input \in decls
    /\ IsSome(Unwrap(run(Start(ModuleOf(input))).output).module)
    /\ asm = None
    /\ expand(input).ok
    /\ gen = expand(input).val
    /\ owner = [o \in OwnerIds |-> NoOwner]
    /\ watch = [f \in PublishedNames |-> Watch_new]
    /\ sub = [s \in SubIds |-> NoSub]
    /\ written = [f \in PublishedNames |-> NoWrites]
    /\ assigned = [o \in OwnerIds |-> [f \in FieldNames |-> None]]
    /\ holders = [f \in PublishedNames |-> 0]

InitFor(decls) == ProgramInit(decls) /\ sig = NoSignal(0)

Init == InitFor(Inputs)

Live(o) == owner[o].status = "live"
Self(o) == Unwrap(owner[o].self)

\* The sends so far, over all channels: the model explores MaxWrites of them.
RECURSIVE SumOfIds(_, _)
SumOfIds(w, names) ==
    IF names = {} THEN 0
    ELSE LET f == CHOOSE x \in names : TRUE IN w[f].current_id + SumOfIds(w, names \ {f})
TotalWrites == SumOfIds(watch, PublishedNames)

\* History: the subscriber holds a value of its channel it has not read yet.
Unread(r, w) ==
    /\ r.status = "live"
    /\ IsSome(w.data)
    /\ r.first_poll \/ w.current_id > r.at_id

\* History: a send on each channel of names overwrites what its subscribers left unread.
NoteMissed(names) ==
    [s \in SubIds |->
        IF sub[s].chan \in names /\ Unread(sub[s], watch[sub[s].chan])
        THEN [sub[s] EXCEPT !.missed = @ + 1] ELSE sub[s]]

\* The sends that took the channels from before to after woke the wakers they
\* removed: the tasks of those subscribers are no longer parked.
Wake(subs, before, after) ==
    [s \in SubIds |->
        IF /\ subs[s].status = "live"
           /\ s \in before[subs[s].chan].wakers \ after[subs[s].chan].wakers
        THEN [subs[s] EXCEPT !.parked = FALSE] ELSE subs[s]]

(***************************************************************************)
(* The owning type: new() and the generated set_<field>.                   *)
(***************************************************************************)
\* A constructor that sends nothing: C3 tells initial_value_sends from it.
no_initial_sends(w, self) == w

\* initial_value_sends: __self.<field>_sender.send(clone(&__self.<field>)) for every
\* published field; each channel receives its own field's value.
initial_value_sends(w, self) == [f \in DOMAIN w |-> send(w[f], self[f])]

\* pub fn new(fields) -> Self: the struct literal with one Watch::sender per published
\* field (infallible: the field holds the Sender itself), then the initial sends.
new(o, args) ==
    /\ owner[o].status = "none"
    /\ TotalWrites + Cardinality(PublishedNames) <= MaxWrites
    /\ \A f \in PublishedNames : ~send_blocks(watch[f])
    /\ LET self == [f \in FieldNames |-> args[f]] IN
       /\ owner' = [owner EXCEPT ![o] = [status |-> "live", self |-> Some(self)]]
       /\ watch' = initial_value_sends(watch, self)
       /\ written' = [f \in PublishedNames |-> Record(written[f], args[f])]
    /\ assigned' = [assigned EXCEPT ![o] = [f \in FieldNames |-> Some(args[f])]]
    /\ sub' = Wake(NoteMissed(PublishedNames), watch, watch')
    /\ UNCHANGED << sig, asm, holders, input, gen >>

\* A set_<field> that sends the value and leaves the field alone: C10 tells
\* set_field_body from it.
publish_only(self, w, f, value) == [self |-> self, watch |-> [w EXCEPT ![f] = send(w[f], value)]]

\* A set_<field> that publishes every published field again: C22 tells set_field_body
\* from it.
set_field_body_publishes_all(self, w, f, value) ==
    LET updated == [self EXCEPT ![f] = value] IN
    [self |-> updated, watch |-> [g \in DOMAIN w |-> send(w[g], updated[g])]]

\* The body of set_<field>: self.<field> = value; then the clone of the field is sent.
set_field_body(self, w, f, value) ==
    LET updated == [self EXCEPT ![f] = value] IN
    [self |-> updated, watch |-> [w EXCEPT ![f] = send(w[f], updated[f])]]

\* pub async fn set_<field>(&mut self, value), generated for every published field;
\* it holds no await point, so a call completes in the step that starts it.
set_field(o, f, value) ==
    /\ Live(o)
    /\ f \in PublishedNames
    /\ TotalWrites < MaxWrites
    /\ ~send_blocks(watch[f])
    /\ LET r == set_field_body(Self(o), watch, f, value) IN
       /\ owner' = [owner EXCEPT ![o].self = Some(r.self)]
       /\ watch' = r.watch
    /\ written' = [written EXCEPT ![f] = Record(@, value)]
    /\ assigned' = [assigned EXCEPT ![o][f] = Some(value)]
    /\ sub' = Wake(NoteMissed({f}), watch, watch')
    /\ UNCHANGED << sig, asm, holders, input, gen >>

\* A channel that dies with its writer: C11 tells drop_sender from it.
drop_sender_closes(w) == [w EXCEPT !.data = None]

\* A <field>_sender field is dropped: Sender has no Drop, and the Watch it refers to
\* is a static, so the channel is as it was.
drop_sender(w) == w

\* The owner instance goes out of scope: its fields and Senders are dropped.
drop_owner(o) ==
    /\ Live(o)
    /\ owner' = [owner EXCEPT ![o] = [status |-> "dropped", self |-> None]]
    /\ watch' = [f \in PublishedNames |-> drop_sender(watch[f])]
    /\ assigned' = [assigned EXCEPT ![o] = [f \in FieldNames |-> None]]
    /\ UNCHANGED << sig, asm, holders, input, gen, sub, written >>

(***************************************************************************)
(* The client's getter of a field with a getter, as the owner's run loop   *)
(* serves it: the clone of the field.                                      *)
(***************************************************************************)
GetterNames == {gen.getter_fields[i].field_name : i \in 1..Len(gen.getter_fields)}
getter(self, f) == self[f]

(***************************************************************************)
(* The client's setter of a field with a setter, as the owner's run loop   *)
(* serves it: it calls the method named by internal_setter_name when there *)
(* is one, and assigns the field directly otherwise.                       *)
(***************************************************************************)
SetterNames == {gen.setter_fields[i].field_name : i \in 1..Len(gen.setter_fields)}
SetterInfo(f) ==
    gen.setter_fields[CHOOSE i \in 1..Len(gen.setter_fields) : gen.setter_fields[i].field_name = f]

client_setter(o, f, value) ==
    /\ Live(o)
    /\ f \in SetterNames
    /\ IF IsSome(SetterInfo(f).internal_setter_name)
       THEN \E g \in PublishedNames :
                /\ "set_" \o g = Unwrap(SetterInfo(f).internal_setter_name)
                /\ set_field(o, g, value)
       ELSE /\ owner' = [owner EXCEPT ![o].self = Some([Self(o) EXCEPT ![f] = value])]
            /\ assigned' = [assigned EXCEPT ![o][f] = Some(value)]
            /\ UNCHANGED << sig, asm, holders, input, gen, watch, sub, written >>

(***************************************************************************)
(* The subscriber type of a published field.                               *)
(***************************************************************************)
\* Subscriber::new() -> Option<Self>: Watch::receiver mapped to a subscriber with
\* first_poll = true; None (nothing changes) when no receiver slot is left.
Subscriber_new(s, f) ==
    /\ sub[s].status = "none"
    /\ \A p \in SubIds : p < s => sub[p].status # "none"
    /\ f \in PublishedNames
    /\ IF receiver_available(watch[f])
       THEN /\ watch' = [watch EXCEPT ![f].receiver_count = @ + 1]
            /\ sub' = [sub EXCEPT ![s] = [NoSub EXCEPT !.status = "live", !.chan = f,
                                            !.first_poll = TRUE, !.at_id = 0,
                                            !.born = written[f].n,
                                            !.orphan = \A o \in OwnerIds : ~Live(o),
                                            !.refused = sub[s].refused]]
       ELSE /\ sub' = [sub EXCEPT ![s].chan = f, ![s].refused = TRUE]
            /\ UNCHANGED watch
    /\ UNCHANGED << sig, asm, holders, input, gen, owner, written, assigned >>

\* A receiver that moves one write ahead per poll: C18 tells Yield from it.
Yield_next_write(r, w) ==
    [r EXCEPT !.at_id = r.at_id + 1, !.pc = "idle", !.last = "Ready",
              !.got = w.data, !.nyields = @ + 1, !.skipped = 0, !.parked = FALSE]

\* A receiver that does not note what it has read: C19 tells Yield from it.
Yield_unnoted(r, w) ==
    [r EXCEPT !.pc = "idle", !.last = "Ready", !.got = w.data, !.nyields = @ + 1,
              !.skipped = 0, !.parked = FALSE]

\* Poll::Ready(Some(value)) returned to the caller, the receiver now at the id read.
Yield(r, w) ==
    [r EXCEPT !.at_id = w.current_id, !.pc = "idle", !.last = "Ready",
              !.got = w.data, !.nyields = @ + 1,
              !.skipped = IF r.first_poll THEN 0 ELSE w.current_id - r.at_id - 1,
              !.parked = FALSE]

\* Poll::Pending returned to the caller: its task waits to be woken.
Pending(r) == [r EXCEPT !.pc = "idle", !.last = "Pending", !.got = None, !.parked = TRUE]

\* A channel whose value is taken by the receiver that reads it: C21 tells
\* poll_changed from it.
poll_changed_takes(s, r, w) ==
    IF changed_ready(w, r.at_id)
    THEN [sub |-> Yield(r, w), watch |-> [w EXCEPT !.data = None]]
    ELSE [sub |-> Pending(r), watch |-> [w EXCEPT !.wakers = @ \cup {s}]]

\* A changed() that returns Pending without leaving its waker: C23 tells poll_changed
\* from it.
poll_changed_unregistered(s, r, w) ==
    IF changed_ready(w, r.at_id)
    THEN [sub |-> Yield(r, w), watch |-> w]
    ELSE [sub |-> Pending(r), watch |-> w]

\* this.receiver.changed() polled in place, its result mapped to Some: the
\* subscriber and the channel after it.
poll_changed(s, r, w) ==
    IF changed_ready(w, r.at_id)
    THEN [sub |-> Yield(r, w), watch |-> w]
    ELSE [sub |-> Pending(r), watch |-> [w EXCEPT !.wakers = @ \cup {s}]]

\* A first poll that returns whatever try_get returns, None included: C24 tells
\* poll_first from it.
poll_first_unchecked(r, w) ==
    LET got == try_get(w) IN
    [Yield(r, w) EXCEPT !.first_poll = FALSE, !.at_id = got.at_id, !.got = got.value]

\* The first-poll branch of poll_next: first_poll is cleared and try_get is called;
\* a value is returned at once, without one the call goes on to changed().
poll_first(r, w) ==
    LET got == try_get(w) IN
    IF IsSome(got.value)
    THEN [Yield(r, w) EXCEPT !.first_poll = FALSE, !.at_id = got.at_id, !.got = got.value]
    ELSE [r EXCEPT !.first_poll = FALSE, !.at_id = got.at_id, !.pc = "changed"]

\* Stream::poll_next up to its return, or up to the end of try_get's critical section
\* when the first poll finds no value.
poll_next(s) ==
    /\ sub[s].status = "live"
    /\ sub[s].pc = "idle"
    /\ LET r == sub[s]
           w == watch[r.chan]
       IN IF r.first_poll
          THEN /\ sub' = [sub EXCEPT ![s] = poll_first(r, w)]
               /\ UNCHANGED watch
          ELSE LET p == poll_changed(s, r, w) IN
               /\ sub' = [sub EXCEPT ![s] = p.sub]
               /\ watch' = [watch EXCEPT ![r.chan] = p.watch]
    /\ UNCHANGED << sig, asm, holders, input, gen, owner, written, assigned >>

\* The rest of a first poll that found no value: changed() polled in its own critical
\* section, after whatever the owner did in between.
poll_next_changed(s) ==
    /\ sub[s].status = "live"
    /\ sub[s].pc = "changed"
    /\ LET p == poll_changed(s, sub[s], watch[sub[s].chan]) IN
       /\ sub' = [sub EXCEPT ![s] = p.sub]
       /\ watch' = [watch EXCEPT ![sub[s].chan] = p.watch]
    /\ UNCHANGED << sig, asm, holders, input, gen, owner, written, assigned >>

\* A receiver whose slot is lost when it is dropped: C12 tells drop_receiver from it.
drop_receiver_leaks(w) == w

\* Receiver's Drop gives the slot back.  The task's waker stays registered until the
\* next send.
drop_receiver(w) == [w EXCEPT !.receiver_count = @ - 1]

\* The subscriber is dropped, and its Receiver with it.
drop_subscriber(s) ==
    /\ sub[s].status = "live"
    /\ sub[s].pc = "idle"
    /\ watch' = [watch EXCEPT ![sub[s].chan] = drop_receiver(@)]
    /\ sub' = [sub EXCEPT ![s] = [NoSub EXCEPT !.status = "dropped"]]
    /\ UNCHANGED << sig, asm, holders, input, gen, owner, written, assigned >>

\* Another client's Subscriber::new(), whose handle is kept and never polled: it
\* takes a receiver slot when one is left.
Subscriber_hold(f) ==
    /\ f \in PublishedNames
    /\ IF receiver_available(watch[f])
       THEN /\ watch' = [watch EXCEPT ![f].receiver_count = @ + 1]
            /\ holders' = [holders EXCEPT ![f] = @ + 1]
       ELSE UNCHANGED << watch, holders >>
    /\ UNCHANGED << sig, asm, input, gen, owner, sub, written, assigned >>

\* The subscribers of a channel held by the client tasks of SubIds.
Polled(f) == Cardinality({s \in SubIds : sub[s].status = "live" /\ sub[s].chan = f})

\* One of the handles kept that way is dropped.
Subscriber_release(f) ==
    /\ f \in PublishedNames
    /\ holders[f] > 0
    /\ watch' = [watch EXCEPT ![f] = drop_receiver(@)]
    /\ holders' = [holders EXCEPT ![f] = @ - 1]
    /\ UNCHANGED << sig, asm, input, gen, owner, sub, written, assigned >>

(***************************************************************************)
(* Spec: the program as the generated code expects to be used, the owning  *)
(* type constructed once (tests/integration.rs:79), for each declaration.  *)
(***************************************************************************)
Next ==
    \/ \E args \in NewArgs : new(1, args)
    \/ \E o \in OwnerIds, f \in PublishedNames :
           \E value \in TypeVals(FieldType(f)) : set_field(o, f, value)
    \/ \E o \in OwnerIds, f \in SetterNames :
           \E value \in TypeVals(FieldType(f)) : client_setter(o, f, value)
    \/ \E o \in OwnerIds : drop_owner(o)
    \/ \E s \in SubIds, f \in PublishedNames : Subscriber_new(s, f)
    \/ \E s \in SubIds : poll_next(s)
    \/ \E s \in SubIds : poll_next_changed(s)
    \/ \E s \in SubIds : drop_subscriber(s)

Spec == Init /\ [][Next]_vars

(***************************************************************************)
(* RebuildSpec: the same program when new() is called a second time.       *)
(***************************************************************************)
RebuildInit == InitFor({SoloController})

RebuildNext ==
    \/ Next
    \/ \E args \in NewArgs : owner[1].status # "none" /\ new(2, args)

RebuildSpec == RebuildInit /\ [][RebuildNext]_vars

(***************************************************************************)
(* SlotSpec: one polled subscriber, a second client that asks for one and  *)
(* keeps it, and other clients that take and give back the remaining       *)
(* receiver slots of the channel.                                          *)
(***************************************************************************)
SlotInit == InitFor({SoloController})

SlotNext ==
    \/ \E args \in NewArgs : new(1, args)
    \/ \E f \in PublishedNames :
           \E value \in TypeVals(FieldType(f)) : set_field(1, f, value)
    \/ \E s \in SubIds : \E f \in PublishedNames : Subscriber_new(s, f)
    \/ poll_next(1)
    \/ poll_next_changed(1)
    \/ drop_subscriber(1)
    \/ \E f \in PublishedNames : Subscriber_hold(f)
    \/ \E f \in PublishedNames : Subscriber_release(f)

SlotSpec == SlotInit /\ [][SlotNext]_vars

(***************************************************************************)
(* WakeSpec: the owner's sends and the subscribers' polls in every order,  *)
(* under the scheduling of an executor: a task that is not parked (it was  *)
(* never polled, its poll is in progress, or a send woke it) is polled.    *)
(***************************************************************************)
Runnable(s) == sub[s].status = "live" /\ ~sub[s].parked

Scheduled(s) == Runnable(s) /\ (poll_next(s) \/ poll_next_changed(s))

WakeInit == InitFor({SoloController})

WakeNext ==
    \/ new(1, [state |-> "Idle", mode |-> "Normal", counter |-> 0])
    \/ \E f \in PublishedNames :
           \E value \in TypeVals(FieldType(f)) : set_field(1, f, value)
    \/ \E s \in SubIds, f \in PublishedNames : Subscriber_new(s, f)
    \/ \E s \in SubIds : poll_next(s)
    \/ \E s \in SubIds : poll_next_changed(s)
    \/ \E s \in SubIds : drop_subscriber(s)

WakeSpec ==
    /\ WakeInit /\ [][WakeNext]_vars
    /\ \A s \in SubIds : WF_vars(Scheduled(s))

(***************************************************************************)
(* FieldsSpec: the program of Spec for the declaration of the test, whose  *)
(* three fields are two published ones and one with a setter only.         *)
(***************************************************************************)
FieldsInit == InitFor({TestController})

FieldsSpec == FieldsInit /\ [][Next]_vars

(***************************************************************************)
(* SignalSpec: the owner's operations emit a signal, client tasks          *)
(* subscribe to it, poll their subscriber and drop it.                     *)
(***************************************************************************)
published_state == << asm, input, gen, owner, watch, sub, written, assigned, holders >>

\* An operation of the owner that emits the signal, as trigger_error emits
\* error_occurred(42, ..): the event is published and the operation goes on.
emit_signal(args) ==
    /\ Live(1)
    /\ sig.ch.next < MaxEmits
    /\ sig' = [sig EXCEPT !.ch = publish(@, args),
                          !.emitted = Some([id |-> sig.ch.next, args |-> args])]
    /\ UNCHANGED published_state

\* client.receive_<signal>(): a subscriber that reads the events emitted from now on,
\* None (nothing changes) when the channel has its 16 subscribers.
SignalSubscriber_new(s) ==
    /\ sig.sub[s].status = "none"
    /\ IF sig.ch.subscribers < BROADCAST_MAX_SUBSCRIBERS
       THEN sig' = [sig EXCEPT !.ch.subscribers = @ + 1,
                               !.sub[s] = [NoSigSub EXCEPT !.status = "live",
                                                           !.cursor = sig.ch.next,
                                                           !.since = sig.ch.next]]
       ELSE UNCHANGED sig
    /\ UNCHANGED published_state

\* One poll of the signal subscriber's stream.
signal_poll_next(s) ==
    /\ sig.sub[s].status = "live"
    /\ LET m == next_message(sig.ch, sig.sub[s].cursor) IN
       sig' = [sig EXCEPT !.sub[s] =
                  IF IsSome(m)
                  THEN [@ EXCEPT !.cursor = Unwrap(m).id + 1, !.last = "Ready", !.got = m,
                                 !.nyields = @ + 1]
                  ELSE [@ EXCEPT !.last = "Pending", !.got = None]]
    /\ UNCHANGED published_state

\* The signal subscriber is dropped.
drop_signal_subscriber(s) ==
    /\ sig.sub[s].status = "live"
    /\ sig' = [sig EXCEPT !.ch.subscribers = @ - 1,
                          !.sub[s] = [NoSigSub EXCEPT !.status = "dropped"]]
    /\ UNCHANGED published_state

\* Other clients hold none, all but one or all of the channel's subscribers.
SignalInit ==
    /\ ProgramInit({SoloController})
    /\ \E others \in {0, BROADCAST_MAX_SUBSCRIBERS - 1, BROADCAST_MAX_SUBSCRIBERS} :
           sig = NoSignal(others)

SignalNext ==
    \/ new(1, [state |-> "Idle", mode |-> "Normal", counter |-> 0])
    \/ \E args \in SignalArgs : emit_signal(args)
    \/ \E s \in SigSubIds : SignalSubscriber_new(s)
    \/ \E s \in SigSubIds : signal_poll_next(s)
    \/ \E s \in SigSubIds : drop_signal_subscriber(s)

SignalSpec == SignalInit /\ [][SignalNext]_vars

(***************************************************************************)
(* GenSpec: the macro run on each of the modules, one step of              *)
(* expand_module at a time.  No program exists yet.                        *)
(***************************************************************************)
program == << sig, input, gen, owner, watch, sub, written, assigned, holders >>

GenInit ==
    /\ asm \in {Start(m) : m \in Modules}
    /\ sig = None /\ input = None /\ gen = None
    /\ owner = << >> /\ watch = << >> /\ sub = << >>
    /\ written = << >> /\ assigned = << >> /\ holders = << >>

Body == asm.pc = "body" /\ asm' = body(asm) /\ UNCHANGED program
Partition == asm.pc = "partition" /\ asm' = partition(asm) /\ UNCHANGED program
StructRequired == asm.pc = "struct_required" /\ asm' = struct_required(asm) /\ UNCHANGED program
ImplRequired == asm.pc = "impl_required" /\ asm' = impl_required(asm) /\ UNCHANGED program
Validate == asm.pc = "validate" /\ asm' = validate(asm) /\ UNCHANGED program
ExpandStruct == asm.pc = "expand_struct" /\ asm' = expand_struct(asm) /\ UNCHANGED program
ExpandImpl == asm.pc = "expand_impl" /\ asm' = expand_impl(asm) /\ UNCHANGED program
Emit == asm.pc = "emit" /\ asm' = emit(asm) /\ UNCHANGED program
MacroReturn == asm.pc = "return" /\ asm' = controller(asm) /\ UNCHANGED program

GenNext ==
    \/ Body
    \/ Partition
    \/ StructRequired
    \/ ImplRequired
    \/ Validate
    \/ ExpandStruct
    \/ ExpandImpl
    \/ Emit
    \/ MacroReturn

GenSpec == GenInit /\ [][GenNext]_vars

(***************************************************************************)
(* What the properties read off a state or a step.                         *)
(***************************************************************************)
Attached(s) == sub[s].status = "live"
Chan(s) == sub[s].chan

\* The values subscriber s is owed: the one present at its creation, if any, and one
\* for every write since.
Owed(s) == (IF sub[s].born >= 1 THEN 1 ELSE 0) + (written[Chan(s)].n - sub[s].born)

\* A write that s has neither yielded nor lost to a later write.
Fresh(s) == sub[s].nyields + sub[s].missed < Owed(s)

\* A step of subscriber s's poll_next.
PollStep(s) ==
    /\ Attached(s)
    /\ sub'[s].status = "live"
    /\ written' = written
    /\ owner' = owner
    /\ \/ sub'[s] # sub[s]
       \/ s \in watch'[Chan(s)].wakers \ watch[Chan(s)].wakers

\* A step of a set_<field> call on channel f (the owner exists, so it is not new()).
SetStep(f) ==
    /\ Live(1)
    /\ written'[f].n = written[f].n + 1

\* A step of subscriber creation, polling or dropping.
SubscriberStep ==
    /\ written' = written
    /\ assigned' = assigned
    /\ sub' # sub \/ watch' # watch

\* The markers of a field in the declaration.
Marked(fld, word) ==
    \E a \in 1..Len(fld.attrs) :
        /\ fld.attrs[a].path = "controller"
        /\ \E m \in 1..Len(fld.attrs[a].metas) : fld.attrs[a].metas[m].name = word
MarkedPubSetter(fld) ==
    \E a \in 1..Len(fld.attrs) :
        /\ fld.attrs[a].path = "controller"
        /\ \E m \in 1..Len(fld.attrs[a].metas) :
               /\ fld.attrs[a].metas[m].name = "publish"
               /\ "pub_setter" \in Range(fld.attrs[a].metas[m].nested)

\* The items of the module the macro runs on, those of one kind, and the struct and
\* the impl block expand_module has picked.
Items == IF IsSome(asm.module.content) THEN Unwrap(asm.module.content) ELSE << >>
ItemsOf(kind) == SelectSeq(Items, LAMBDA it : it.kind = kind)
Picked == IsSome(asm.struct_item) /\ IsSome(asm.impl_item)
Decl == Unwrap(asm.struct_item).decl
SelfTy == Unwrap(asm.impl_item).self_ty

\* The partition went through every item and picked both, and the name check after
\* it was made.
Checked ==
    /\ Picked /\ asm.i > Len(Items)
    /\ asm.pc \notin {"partition", "struct_required", "impl_required", "validate"}

\* The macro has returned: its output is a module, or a diagnostic.
Done == asm.pc = "done"
Emitted == Done /\ IsSome(Unwrap(asm.output).module)
Diagnosed(e) == Done /\ Unwrap(asm.output) = [module |-> None, compile_error |-> Some(e)]
Failed == \E r \in {asm.result} : IsSome(r) /\ ~Unwrap(r).ok /\ Diagnosed(Unwrap(r).err)

\* The self type of the impl block names the struct: its path ends in the struct's
\* name, after nothing or self.
SameEntity(ty, name) ==
    /\ ty.path /\ ~ty.args
    /\ ty.segments \in {<< name >>, << "self", name >>}

\* The marker names of a declaration that the macro does not know, in any
\* #[controller(...)] attribute of any field, and the message naming one.
UnknownMarkers(decl) ==
    UNION {UNION {UNION {
        (IF m.name \in {"publish", "getter", "setter"} THEN {} ELSE {m.name})
        \cup (IF m.name = "publish" THEN Range(m.nested) \ {"pub_setter"} ELSE {}) :
            m \in Range(at.metas)} :
            at \in {x \in Range(fld.attrs) : x.path = "controller"}} :
            fld \in Range(decl.fields)}
NamesMarker(e, decl) ==
    \E n \in UnknownMarkers(decl) :
        e \in {"expected 'publish', 'getter', or 'setter', found '" \o n \o "'",
               "expected 'pub_setter', found '" \o n \o "'"}

\* A step of signal subscriber s's poll.
SignalPollStep(s) ==
    /\ sig.sub[s].status = "live" /\ sig'.sub[s].status = "live"
    /\ sig'.ch = sig.ch
    /\ sig'.sub[s] # sig.sub[s]

\* The number of the oldest event subscriber s has not read and can still read.
OldestUnread(s) ==
    IF sig.sub[s].cursor >= sig.ch.next - SIGNAL_CHANNEL_CAPACITY
    THEN sig.sub[s].cursor ELSE sig.ch.next - SIGNAL_CHANNEL_CAPACITY

\* The live subscribers of a channel.
LiveSubs(f) == Polled(f) + holders[f]

\* A step of Subscriber::new() called by client s.
NewStep(s) == sub[s].status = "none" /\ sub'[s] # sub[s]

\* The owner was constructed and has been dropped.
OwnerGone == owner[1].status = "dropped"

(***************************************************************************)
(* C1                                                                      *)
(***************************************************************************)
\* C1: the first poll of a subscriber created after N >= 1 writes returns at once,
\* Ready with the value of the most recent write, as its one and only yield so far,
\* and leaves nothing unread; and while no further write happens every later poll
\* is Pending and yields nothing, so none of the earlier writes is replayed.
C1_FirstPollYieldsLatest ==
    [][\A s \in SubIds :
          /\ PollStep(s) /\ sub[s].first_poll /\ sub[s].born >= 1
                => /\ sub'[s].pc = "idle"
                   /\ sub'[s].last = "Ready"
                   /\ sub'[s].got = written[Chan(s)].last
                   /\ sub'[s].nyields = 1
                   /\ ~Unread(sub'[s], watch'[Chan(s)])
          /\ PollStep(s) /\ ~sub[s].first_poll /\ sub[s].born >= 1
                         /\ written[Chan(s)].n = sub[s].born
                => /\ sub'[s].last = "Pending"
                   /\ sub'[s].nyields = sub[s].nyields]_vars

\* A subscriber created after two writes of different values has polled once and holds
\* the second.
C1_Witness ==
    \E s \in SubIds :
        /\ Attached(s) /\ ~sub[s].first_poll
        /\ sub[s].born >= 2 /\ written[Chan(s)].n = sub[s].born
        /\ sub[s].nyields = 1 /\ sub[s].last = "Ready"
        /\ sub[s].got = written[Chan(s)].last
        /\ written[Chan(s)].first # written[Chan(s)].last

(***************************************************************************)
(* C2                                                                      *)
(***************************************************************************)
\* C2, as stated: a subscriber created before any write yields nothing while nothing
\* is written, and the first value it yields is the value of the first write.
C2_FirstYieldIsFirstWrite ==
    \A s \in SubIds :
        Attached(s) /\ sub[s].born = 0
            => /\ written[Chan(s)].n = 0 => sub[s].nyields = 0 /\ sub[s].last # "Ready"
               /\ sub[s].nyields = 1 /\ sub[s].last = "Ready"
                      => sub[s].got = written[Chan(s)].first

\* C2, amended: a subscriber created before any write yields nothing while nothing is
\* written, and the first value it yields is the value of the most recent write at the
\* time of that poll: the first write's when the poll read it before a second write.
C2_FirstYieldIsLatestWrite ==
    \A s \in SubIds :
        Attached(s) /\ sub[s].born = 0
            => /\ written[Chan(s)].n = 0 => sub[s].nyields = 0 /\ sub[s].last # "Ready"
               /\ sub[s].nyields = 1 /\ sub[s].last = "Ready"
                      => /\ sub[s].at_id >= 1
                         /\ sub[s].at_id = 1 => sub[s].got = written[Chan(s)].first
                         /\ sub[s].at_id = written[Chan(s)].n
                                => sub[s].got = written[Chan(s)].last

\* A subscriber created before any write has just yielded its first value, after two
\* writes: the second write's value, which differs from the first's.
C2_Witness ==
    \E s \in SubIds :
        /\ Attached(s) /\ sub[s].born = 0
        /\ sub[s].nyields = 1 /\ sub[s].last = "Ready"
        /\ sub[s].at_id = 2 /\ written[Chan(s)].n = 2
        /\ sub[s].got = written[Chan(s)].last
        /\ sub[s].got # written[Chan(s)].first

(***************************************************************************)
(* C3                                                                      *)
(***************************************************************************)
\* C3: when the owner was built and its field never set (the channel has seen the
\* constructor's send and nothing else), the first poll of a subscriber created
\* afterwards is Ready with the value new() was given for the field.
C3_InitialValueObserved ==
    [][\A s \in SubIds :
          PollStep(s) /\ sub[s].first_poll /\ sub[s].born = 1 /\ written[Chan(s)].n = 1
              => /\ sub'[s].last = "Ready"
                 /\ sub'[s].nyields = 1
                 /\ sub'[s].got = written[Chan(s)].first
                 /\ Live(1) => sub'[s].got = assigned[1][Chan(s)]]_vars

\* The owner is built and unchanged, and a subscriber created afterwards holds the
\* owner's field value as its first observation.
C3_Witness ==
    \E s \in SubIds :
        /\ Attached(s) /\ sub[s].born = 1 /\ written[Chan(s)].n = 1
        /\ Live(1)
        /\ sub[s].nyields = 1 /\ sub[s].last = "Ready"
        /\ sub[s].got = Some(Self(1)[Chan(s)])

(***************************************************************************)
(* C4                                                                      *)
(***************************************************************************)
\* C4: a first poll that finds a value returns it; any poll that returns Ready yields
\* the present value and there was a write the subscriber had not yielded yet, after
\* which there is none; a poll that returns Pending yields nothing and there was no
\* such write.
C4_ReadyOnlyOnChange ==
    [][\A s \in SubIds :
          PollStep(s) =>
              /\ sub[s].first_poll /\ IsSome(watch[Chan(s)].data)
                    => sub'[s].pc = "idle" /\ sub'[s].last = "Ready"
              /\ sub'[s].pc = "idle" /\ sub'[s].last = "Ready"
                    => /\ Fresh(s)
                       /\ sub'[s].got = written[Chan(s)].last
                       /\ sub'[s].nyields = sub[s].nyields + 1
                       /\ sub'[s].nyields + sub'[s].missed = Owed(s)
              /\ sub'[s].pc = "idle" /\ sub'[s].last = "Pending"
                    => /\ ~Fresh(s)
                       /\ sub'[s].nyields = sub[s].nyields]_vars

\* A subscriber has yielded two values and its last poll, with nothing new, was Pending.
C4_Witness ==
    \E s \in SubIds :
        /\ Attached(s) /\ ~sub[s].first_poll
        /\ sub[s].nyields = 2 /\ sub[s].missed = 0
        /\ sub[s].last = "Pending"
        /\ written[Chan(s)].n >= 2

(***************************************************************************)
(* C5                                                                      *)
(***************************************************************************)
\* C5: every write is one observation for each attached subscriber: the values it has
\* yielded, those overwritten before it read them and the one it has not read yet
\* add up to the values it is owed, so a subscriber that lost none has yielded one
\* value per call.
C5_OneObservationPerCall ==
    \A s \in SubIds :
        Attached(s)
            => sub[s].nyields + sub[s].missed
                   + (IF Unread(sub[s], watch[Chan(s)]) THEN 1 ELSE 0) = Owed(s)

\* A subscriber attached since construction, across two set calls, has yielded three
\* values (the initial one and one per call) and lost none.
C5_Witness ==
    \E s \in SubIds :
        /\ Attached(s) /\ sub[s].born = 1
        /\ written[Chan(s)].n = 3
        /\ sub[s].nyields = 3 /\ sub[s].missed = 0

(***************************************************************************)
(* C6                                                                      *)
(***************************************************************************)
\* C6: a set_<field> call with the value the channel was last sent leaves the field
\* equal to that value and is still one more send: the id advances and every attached
\* subscriber has a value to read.
C6_SameValueStillPublished ==
    [][\A f \in PublishedNames :
          SetStep(f) /\ written'[f].repeat
              => /\ Some(Unwrap(owner'[1].self)[f]) = written[f].last
                 /\ watch'[f].data = written[f].last
                 /\ watch'[f].current_id = watch[f].current_id + 1
                 /\ \A s \in SubIds :
                        Attached(s) /\ Chan(s) = f => Unread(sub'[s], watch'[f])]_vars

\* Two set calls with the same value, and a subscriber created between the constructor
\* and them that has yielded both.
C6_Witness ==
    \E s \in SubIds :
        /\ Attached(s) /\ sub[s].born = 2
        /\ written[Chan(s)].n = 3 /\ written[Chan(s)].repeat
        /\ sub[s].nyields = 2 /\ sub[s].missed = 0
        /\ sub[s].last = "Ready" /\ sub[s].got = written[Chan(s)].last

(***************************************************************************)
(* C7                                                                      *)
(***************************************************************************)
\* C7: within the writes explored, new() on an unbuilt owner and set_<field> on a live
\* one can always take their step, whatever the receivers alive (0 to 16) and whatever
\* they have read.
C7_PublishNeverBlocks ==
    /\ owner[1].status = "none" /\ TotalWrites + Cardinality(PublishedNames) <= MaxWrites
           => \A args \in NewArgs : ENABLED new(1, args)
    /\ Live(1) /\ TotalWrites < MaxWrites
           => \A f \in PublishedNames :
                  \A value \in TypeVals(FieldType(f)) : ENABLED set_field(1, f, value)

\* All 16 receivers of a channel are alive, one of them has never polled and has lost
\* a value already, and the owner can write again.
C7_Witness ==
    /\ Live(1) /\ TotalWrites < MaxWrites
    /\ \E s \in SubIds :
           /\ Attached(s) /\ sub[s].first_poll /\ sub[s].missed >= 1
           /\ Unread(sub[s], watch[Chan(s)])
           /\ watch[Chan(s)].receiver_count = BROADCAST_MAX_SUBSCRIBERS

(***************************************************************************)
(* C8                                                                      *)
(***************************************************************************)
\* C8, as stated: at most one writer of a channel ever exists: no two instances of the
\* owning type, each holding a Sender of the same static channel, are alive together.
C8_SingleWriter == Cardinality({o \in OwnerIds : Live(o)}) <= 1

(***************************************************************************)
(* C9                                                                      *)
(***************************************************************************)
\* C9: every published field marked with a setter has a setter descriptor, the
\* descriptor of a published field names set_<field> as its internal setter and the
\* descriptor of any other field names none; and the channel of a published field
\* holds the value of the live owner's field.
C9_WritesGoThroughPublish ==
    /\ \A i \in 1..Len(input.fields) :
           LET fld == input.fields[i] IN
           /\ Marked(fld, "publish") /\ (Marked(fld, "setter") \/ MarkedPubSetter(fld))
                  => fld.ident \in SetterNames
           /\ fld.ident \in SetterNames
                  => SetterInfo(fld.ident).internal_setter_name =
                         IF Marked(fld, "publish") THEN Some("set_" \o fld.ident) ELSE None
    /\ Live(1) => \A f \in PublishedNames : watch[f].data = Some(Self(1)[f])

\* The published field whose setter is renamed has been set to another value than the
\* constructor's, and its channel holds the field's value.
C9_Witness ==
    /\ Live(1)
    /\ \E f \in SetterNames \cap PublishedNames :
           /\ SetterInfo(f).setter_name # "set_" \o f
           /\ written[f].n >= 2
           /\ written[f].last # written[f].first
           /\ watch[f].data = Some(Self(1)[f])

(***************************************************************************)
(* C10                                                                     *)
(***************************************************************************)
\* C10: after every step the getter of a field of a live owner returns the last value
\* given to the field, by new() or by a setter; and a step of subscriber creation,
\* polling or dropping leaves the owner, hence the getter's result, as it was.
C10_GetterReturnsLastWrite ==
    [][/\ \A o \in OwnerIds : \A f \in GetterNames :
              owner'[o].status = "live"
                  => Some(getter(Unwrap(owner'[o].self), f)) = assigned'[o][f]
       /\ SubscriberStep => owner' = owner]_vars

\* The field was set to another value than the constructor's and its getter returns
\* it, while one subscriber of the field has yielded and another was dropped.
C10_Witness ==
    /\ Live(1)
    /\ \E f \in GetterNames \cap PublishedNames :
           /\ Some(getter(Self(1), f)) = written[f].last
           /\ written[f].last # written[f].first
           /\ \E s \in SubIds : Attached(s) /\ Chan(s) = f /\ sub[s].nyields >= 1
           /\ \E s \in SubIds : sub[s].status = "dropped"

(***************************************************************************)
(* C11                                                                     *)
(***************************************************************************)
\* C11: dropping the owner leaves every channel and every subscriber as they were;
\* once the owner is gone each channel still holds the last value written; the first
\* poll of a subscriber created after the drop is Ready with that value; and the
\* subscribers that existed before still poll as before: Ready with the last value
\* when they have not read it, Pending otherwise.
C11_ChannelOutlivesOwner ==
    [][/\ Live(1) /\ owner'[1].status = "dropped" => watch' = watch /\ sub' = sub
       /\ OwnerGone => \A f \in PublishedNames : watch[f].data = written[f].last
                                                  /\ IsSome(watch[f].data)
       /\ \A s \in SubIds :
              OwnerGone /\ PollStep(s) =>
                  /\ sub[s].orphan /\ sub[s].first_poll
                        => /\ sub'[s].pc = "idle" /\ sub'[s].last = "Ready"
                           /\ sub'[s].got = written[Chan(s)].last
                  /\ ~sub[s].orphan
                        => /\ sub'[s].pc = "idle"
                           /\ sub'[s].last = IF Fresh(s) THEN "Ready" ELSE "Pending"
                           /\ Fresh(s) => sub'[s].got = written[Chan(s)].last]_vars

\* The owner is gone; a subscriber created after the drop has yielded the last value
\* written, and one created before the drop holds it too.
C11_Witness ==
    /\ OwnerGone
    /\ \E s \in SubIds :
           /\ Attached(s) /\ sub[s].orphan /\ ~sub[s].first_poll
           /\ sub[s].last = "Ready" /\ sub[s].got = written[Chan(s)].last
    /\ \E s \in SubIds :
           /\ Attached(s) /\ ~sub[s].orphan /\ sub[s].born = 1
           /\ sub[s].last = "Ready" /\ sub[s].at_id = 2
           /\ sub[s].got = written[Chan(s)].last

(***************************************************************************)
(* C12                                                                     *)
(***************************************************************************)
\* C12: the receivers a channel counts are its live subscribers, so a dropped
\* subscriber no longer takes a slot; and Subscriber::new() returns None only when
\* the channel has 16 live subscribers: after a refusal, once any one of them is
\* dropped, the next creation succeeds.
C12_DropReleasesSlot ==
    [][/\ \A f \in PublishedNames : watch'[f].receiver_count = LiveSubs(f)'
       /\ \A s \in SubIds :
              NewStep(s) =>
                  IF LiveSubs(sub'[s].chan) < BROADCAST_MAX_SUBSCRIBERS
                  THEN sub'[s].status = "live"
                  ELSE sub'[s].status = "none" /\ sub'[s].refused]_vars

\* A client whose creation was refused holds a subscriber now, beside 15 others: it
\* took the slot one of the 16 gave back.
C12_Witness ==
    \E s \in SubIds :
        /\ Attached(s) /\ sub[s].refused
        /\ holders[Chan(s)] = BROADCAST_MAX_SUBSCRIBERS - 1
        /\ watch[Chan(s)].receiver_count = BROADCAST_MAX_SUBSCRIBERS

(***************************************************************************)
(* C13                                                                     *)
(***************************************************************************)
\* C13: expand_module gets past the partition of the items, and the macro emits a
\* module, only when the module has exactly one struct and exactly one impl block;
\* with more than one or none of either, the macro returns one of the four
\* diagnostics of the partition and no module.
C13_ExactlyOneOfEach ==
    /\ asm.pc \in {"validate", "expand_struct", "expand_impl", "emit"} \/ Emitted
           => Len(ItemsOf("struct")) = 1 /\ Len(ItemsOf("impl")) = 1
    /\ Done /\ IsSome(asm.module.content)
            /\ (Len(ItemsOf("struct")) # 1 \/ Len(ItemsOf("impl")) # 1)
           => /\ Failed
              /\ \/ /\ Len(ItemsOf("struct")) > 1
                    /\ Diagnosed("Module must contain exactly one struct definition")
                 \/ /\ Len(ItemsOf("impl")) > 1
                    /\ Diagnosed("Module must contain exactly one impl block")
                 \/ /\ Len(ItemsOf("struct")) = 0
                    /\ Diagnosed("Module must contain a struct definition for the controller")
                 \/ /\ Len(ItemsOf("impl")) = 0
                    /\ Diagnosed("Module must contain an impl block for the controller")

\* A module with two structs and one impl block was refused for its second struct.
C13_Witness ==
    /\ Len(ItemsOf("struct")) = 2 /\ Len(ItemsOf("impl")) = 1
    /\ Diagnosed("Module must contain exactly one struct definition")

(***************************************************************************)
(* C14                                                                     *)
(***************************************************************************)
\* C14, as stated: when the impl block's self type does not name the struct,
\* expand_module, once the name check was made, goes no further, and what it returns
\* is the name-mismatch error.
C14_MismatchStopsAtValidate ==
    Checked /\ ~SameEntity(SelfTy, Decl.ident)
        => /\ asm.pc \in {"return", "done"}
           /\ IsSome(get_ident(SelfTy))
           /\ asm.result = Some(Err("Impl block is for type '" \o Unwrap(get_ident(SelfTy))
                                    \o "' but controller struct is named '"
                                    \o Decl.ident \o "'"))

(***************************************************************************)
(* C15                                                                     *)
(***************************************************************************)
\* C15, as stated: a struct with a marker the macro does not know is never expanded,
\* and when its expansion is what fails, the error names one of those markers.
C15_UnknownMarkerRejected ==
    IsSome(asm.struct_item) /\ Decl.named /\ UnknownMarkers(Decl) # {}
        => /\ asm.expanded_struct = None
           /\ ~Emitted
           /\ asm.result = Some(expand(Decl)) => NamesMarker(Unwrap(asm.result).err, Decl)

(***************************************************************************)
(* C16                                                                     *)
(***************************************************************************)
\* C16: the macro hands nothing back before expand_module has returned; what it hands
\* back is either a module or a diagnostic, never both; a module only when the body
\* exists, the partition found one struct and one impl block, the name check, the
\* struct expansion and the impl expansion all succeeded, and then the complete one:
\* every passthrough item in order, the expanded struct and the expanded impl; a
\* diagnostic is the error expand_module returned, after which it did nothing more.
C16_AllOrNothing ==
    /\ ~Done => asm.output = None
    /\ Done => Emitted \/ Failed
    /\ Emitted =>
           /\ Len(ItemsOf("struct")) = 1 /\ Len(ItemsOf("impl")) = 1
           /\ LET d == ItemsOf("struct")[1].decl
                  i == ItemsOf("impl")[1]
              IN /\ ~(IsSome(get_ident(i.self_ty)) /\ Unwrap(get_ident(i.self_ty)) # d.ident)
                 /\ expand(d).ok /\ ~i.fails
                 /\ Unwrap(asm.output).compile_error = None
                 /\ Unwrap(Unwrap(asm.output).module) =
                        [vis |-> asm.module.vis, mod_name |-> asm.module.ident,
                         other_items |-> ItemsOf("other"),
                         struct_tokens |-> expand(d).val,
                         expanded_impl |-> item_impl_expand(i, expand(d).val.published_fields).val]
    /\ IsSome(asm.result) /\ ~Unwrap(asm.result).ok
           => /\ asm.pc \in {"return", "done"}
              /\ asm.expanded_impl = None
              /\ asm.expanded_struct = None \/ Unwrap(asm.result) = Err("impl block: expansion failed")

\* A module whose struct and impl block passed every check but whose impl expansion
\* failed: the macro handed back that diagnostic alone.
C16_Witness ==
    /\ Picked /\ IsSome(asm.expanded_struct)
    /\ Len(ItemsOf("other")) = 1
    /\ Diagnosed("impl block: expansion failed")

(***************************************************************************)
(* C17                                                                     *)
(***************************************************************************)
\* C17, as stated, for the first poll of a subscriber: when a signal was emitted after
\* the subscriber subscribed, its next poll yields the signal emitted last, with the
\* arguments of that emission.
C17_NextPollYieldsSignal ==
    [][\A s \in SigSubIds :
          SignalPollStep(s) /\ sig.sub[s].last = "none" /\ sig.sub[s].since < sig.ch.next
              => sig'.sub[s].last = "Ready" /\ sig'.sub[s].got = sig.emitted]_vars

\* C17, amended: the signals emitted after a subscriber subscribed reach it one per
\* poll, in the order of emission: a poll is Pending when it has read them all, and
\* otherwise yields the oldest one it has not read and the queue still holds (those
\* more than 8 emissions back are lost); so the poll after an emission yields that
\* signal, with the arguments it was emitted with, when the subscriber had read
\* every earlier one.
C17_SignalsInEmissionOrder ==
    [][\A s \in SigSubIds :
          SignalPollStep(s) =>
              /\ sig.sub[s].since <= sig.sub[s].cursor /\ sig.sub[s].cursor <= sig.ch.next
              /\ sig.sub[s].cursor = sig.ch.next
                    => sig'.sub[s].last = "Pending" /\ sig'.sub[s].cursor = sig.sub[s].cursor
              /\ sig.sub[s].cursor < sig.ch.next
                    => /\ sig'.sub[s].last = "Ready"
                       /\ Unwrap(sig'.sub[s].got).id = OldestUnread(s)
                       /\ Unwrap(sig'.sub[s].got) \in Range(sig.ch.queue)
                       /\ sig'.sub[s].cursor = OldestUnread(s) + 1
              /\ sig.sub[s].cursor = sig.ch.next - 1
                    => sig'.sub[s].got = sig.emitted]_vars

\* A subscriber that subscribed before any emission and had read the first eight
\* signals has yielded the ninth, with its arguments, at the poll after its emission.
C17_Witness ==
    \E s \in SigSubIds :
        /\ sig.sub[s].status = "live" /\ sig.sub[s].since = 0
        /\ sig.ch.next = SIGNAL_CHANNEL_CAPACITY + 1
        /\ sig.sub[s].nyields = sig.ch.next
        /\ sig.sub[s].last = "Ready" /\ sig.sub[s].got = sig.emitted
        /\ Unwrap(sig.emitted).args = 42

(***************************************************************************)
(* C18                                                                     *)
(***************************************************************************)
\* The writes on subscriber s's channel since the write s read last.
WritesSince(s) == written[Chan(s)].n - sub[s].at_id

\* C18: only the newest value is retained: a poll that comes k >= 2 writes after the
\* subscriber's previous poll is Ready with the value of the last of them, counts as
\* one yield, puts the subscriber at the last write, so that the k - 1 values before
\* it are never yielded, and leaves nothing unread; a poll with no write since the
\* previous one is Pending and yields nothing.
C18_OnlyNewestRetained ==
    [][\A s \in SubIds :
          PollStep(s) /\ ~sub[s].first_poll /\ sub[s].pc = "idle" =>
              /\ watch[Chan(s)].current_id = written[Chan(s)].n
              /\ WritesSince(s) >= 2
                    => /\ sub'[s].last = "Ready"
                       /\ sub'[s].got = written[Chan(s)].last
                       /\ sub'[s].nyields = sub[s].nyields + 1
                       /\ sub'[s].at_id = written[Chan(s)].n
                       /\ sub'[s].skipped = WritesSince(s) - 1
                       /\ ~Unread(sub'[s], watch'[Chan(s)])
              /\ WritesSince(s) = 0
                    => /\ sub'[s].last = "Pending" /\ sub'[s].got = None
                       /\ sub'[s].nyields = sub[s].nyields
                       /\ sub'[s].at_id = sub[s].at_id]_vars

\* A subscriber had yielded the initial value; two writes later its poll yielded the
\* second of them only, and the poll after that was Pending.
C18_Witness ==
    \E s \in SubIds :
        /\ Attached(s) /\ sub[s].born = 1
        /\ written[Chan(s)].n = 3 /\ sub[s].at_id = 3
        /\ sub[s].nyields = 2 /\ sub[s].skipped = 1 /\ sub[s].missed = 1
        /\ sub[s].last = "Pending"

(***************************************************************************)
(* C19                                                                     *)
(***************************************************************************)
\* The write a subscriber that lost none yields k-th: the one present at its creation
\* (the first write when there was none) is its first.
OwedWrite(s, k) == (IF sub[s].born >= 1 THEN sub[s].born ELSE 1) + k - 1

\* Subscriber s's poll returns Ready in this step.
YieldStep(s) == PollStep(s) /\ sub'[s].nyields = sub[s].nyields + 1

\* C19: a subscriber's yields follow the write order: its position in the channel's
\* write sequence never moves back, every yield is the value of the write at its new
\* position, which is later than the position before, and for a subscriber that
\* has lost no write (it polled between consecutive writes) the k-th yield is the
\* k-th write it was owed.
C19_YieldsInWriteOrder ==
    [][\A s \in SubIds :
          /\ Attached(s) /\ sub'[s].status = "live" => sub'[s].at_id >= sub[s].at_id
          /\ YieldStep(s) =>
                /\ sub'[s].at_id > sub[s].at_id
                /\ sub'[s].at_id = written[Chan(s)].n
                /\ sub'[s].got = written[Chan(s)].last
                /\ sub'[s].missed = 0 => sub'[s].at_id = OwedWrite(s, sub'[s].nyields)]_vars

\* The subscriber of the test: attached to state since construction, it has yielded
\* Idle first and Error third, each write polled before the next.
C19_Witness ==
    \E s \in SubIds :
        /\ Attached(s) /\ Chan(s) = "state" /\ sub[s].born = 1
        /\ written["state"].first = Some("Idle")
        /\ sub[s].nyields = 3 /\ sub[s].missed = 0 /\ sub[s].at_id = 3
        /\ sub[s].last = "Ready" /\ sub[s].got = Some("Error")

(***************************************************************************)
(* C20                                                                     *)
(***************************************************************************)
\* Client s asked for a subscriber in this step and got None.
RefusedStep(s) == NewStep(s) /\ sub'[s].status = "none"

\* C20: no channel ever has more than BROADCAST_MAX_SUBSCRIBERS = 16 live
\* subscribers; a creation returns None exactly when 16 are live on the channel, and
\* then the channel (its value, its id, its receiver count, its wakers), the writes
\* and every subscriber that exists are as they were.
C20_AtMostSixteenSubscribers ==
    [][/\ \A f \in PublishedNames :
              /\ LiveSubs(f) <= BROADCAST_MAX_SUBSCRIBERS
              /\ LiveSubs(f)' <= BROADCAST_MAX_SUBSCRIBERS
       /\ \A s \in SubIds :
              /\ NewStep(s) =>
                    (RefusedStep(s) <=> LiveSubs(sub'[s].chan) = BROADCAST_MAX_SUBSCRIBERS)
              /\ RefusedStep(s) =>
                    /\ watch' = watch /\ written' = written /\ holders' = holders
                    /\ \A p \in SubIds \ {s} : sub'[p] = sub[p]]_vars

\* Sixteen subscribers are live on a channel that holds a value, one of them has
\* yielded it, and another client's creation has been refused.
C20_Witness ==
    \E s, p \in SubIds :
        /\ sub[s].status = "none" /\ sub[s].refused
        /\ Attached(p) /\ Chan(p) = Chan(s) /\ sub[p].nyields >= 1
        /\ IsSome(watch[Chan(s)].data)
        /\ LiveSubs(Chan(s)) = BROADCAST_MAX_SUBSCRIBERS

(***************************************************************************)
(* C21                                                                     *)
(***************************************************************************)
\* What the next poll_next of a subscriber r of channel w, called by task s, returns
\* if nothing happens before it: the result and the value.
NextPoll(s, r, w) ==
    LET first == IF r.first_poll /\ r.pc = "idle" THEN poll_first(r, w) ELSE r
        after == IF first.pc = "idle" /\ r.first_poll THEN first
                 ELSE poll_changed(s, first, w).sub
    IN << after.last, after.got >>

\* Subscriber s is created, polled or dropped in this step.
OwnStep(s) ==
    /\ SubscriberStep
    /\ owner' = owner
    /\ \/ sub'[s] # sub[s]
       \/ Attached(s) /\ s \in watch'[Chan(s)].wakers \ watch[Chan(s)].wakers

\* C21: subscribers are independent: when one subscriber is created, polled or
\* dropped, every other live subscriber keeps its position, its first_poll flag and
\* the rest of its state, and its next poll returns what it would have returned
\* before the step: the same value if Ready, Pending if Pending.
C21_SubscribersIndependent ==
    [][\A s \in SubIds : \A p \in SubIds \ {s} :
          OwnStep(s) /\ Attached(p) =>
              /\ sub'[p] = sub[p]
              /\ NextPoll(p, sub'[p], watch'[Chan(p)]) = NextPoll(p, sub[p], watch[Chan(p)])]_vars

\* Two subscribers of one channel at different positions: one has yielded the latest
\* write, the other has yielded an earlier one and its next poll is Ready with the
\* latest.
C21_Witness ==
    \E s \in SubIds : \E p \in SubIds \ {s} :
        /\ Attached(s) /\ Attached(p) /\ Chan(s) = Chan(p)
        /\ sub[s].last = "Ready" /\ sub[s].at_id = written[Chan(s)].n
        /\ sub[p].nyields >= 1 /\ sub[p].at_id < sub[s].at_id
        /\ NextPoll(p, sub[p], watch[Chan(p)]) = << "Ready", written[Chan(p)].last >>

(***************************************************************************)
(* C22                                                                     *)
(***************************************************************************)
\* A step of a field write on owner o: a set_<field> call or a client setter, on an
\* owner that exists before and after it.
WriteStep(o) ==
    /\ Live(o) /\ owner'[o].status = "live"
    /\ owner' # owner \/ written' # written \/ assigned' # assigned

\* The step leaves everything but field f alone: the other fields of the owner, the
\* other channels and their write records, and the subscribers of other channels,
\* whose next poll returns what it would have returned before.
OnlyFieldChanged(o, f) ==
    /\ \A g \in FieldNames \ {f} : Self(o)'[g] = Self(o)[g]
    /\ \A g \in PublishedNames \ {f} : watch'[g] = watch[g] /\ written'[g] = written[g]
    /\ \A s \in SubIds :
           Attached(s) /\ Chan(s) # f =>
               /\ sub'[s] = sub[s]
               /\ NextPoll(s, sub'[s], watch'[Chan(s)]) = NextPoll(s, sub[s], watch[Chan(s)])

\* C22: a write to one field touches that field only: the step changes the field it
\* assigns and, when that field is published, its channel, by exactly one send of
\* the new value; every other field, every other channel and the subscribers of the
\* other channels are as before, and a write to a field that is not published sends
\* on no channel.
C22_WriteTouchesOneField ==
    [][\A o \in OwnerIds :
          WriteStep(o) =>
              \E f \in FieldNames :
                  /\ assigned'[o][f] = Some(Self(o)'[f])
                  /\ OnlyFieldChanged(o, f)
                  /\ f \in PublishedNames
                        => /\ written'[f].n = written[f].n + 1
                           /\ watch'[f].data = Some(Self(o)'[f])
                           /\ watch'[f].current_id = watch[f].current_id + 1
                  /\ f \notin PublishedNames
                        => watch' = watch /\ written' = written /\ sub' = sub]_vars

\* The controller of the test: counter was set to 100 by its setter and state was
\* set once, while the channel of mode still holds its initial value and the last
\* poll of mode's subscriber, which had yielded it, was Pending.
C22_Witness ==
    /\ input = TestController /\ Live(1)
    /\ assigned[1]["counter"] = Some(100) /\ Self(1)["counter"] = 100
    /\ written["state"].n = 2 /\ written["mode"].n = 1
    /\ \E s \in SubIds :
           /\ Attached(s) /\ Chan(s) = "mode"
           /\ sub[s].nyields = 1 /\ sub[s].last = "Pending"

(***************************************************************************)
(* C23                                                                     *)
(***************************************************************************)
\* A send on channel f happens in this step.
SendStep(f) == written'[f].n = written[f].n + 1

\* Subscriber s is parked on its channel: registered to be woken, nothing to read.
ParkedRegistered(s) ==
    Attached(s) /\ sub[s].parked
        => s \in watch[Chan(s)].wakers /\ ~Unread(sub[s], watch[Chan(s)])

\* C23: no lost wakeup: a subscriber whose poll returned Pending is registered with
\* its channel until the next send, whatever the order of the owner's send and the
\* steps of the poll; that send wakes it, and its next poll is then Ready with the
\* value sent; and when the tasks that are not parked get polled, a subscriber that
\* has a value to read yields (or is dropped).
C23_NoLostWakeup ==
    /\ [][\A s \in SubIds :
             /\ ParkedRegistered(s) /\ ParkedRegistered(s)'
             /\ Attached(s) /\ sub[s].parked /\ SendStep(Chan(s))
                   => /\ ~sub'[s].parked
                      /\ NextPoll(s, sub'[s], watch'[Chan(s)])
                             = << "Ready", written'[Chan(s)].last >>]_vars
    /\ \A s \in SubIds :
           (Attached(s) /\ Unread(sub[s], watch[Chan(s)]))
               ~> (~Attached(s) \/ ~Unread(sub[s], watch[Chan(s)]))

\* A subscriber that had yielded a value and then got Pending was woken by a send: it
\* is no longer parked and has the new value to read.
C23_Witness ==
    \E s \in SubIds :
        /\ Attached(s) /\ sub[s].nyields >= 1 /\ sub[s].last = "Pending"
        /\ ~sub[s].parked /\ s \notin watch[Chan(s)].wakers
        /\ Unread(sub[s], watch[Chan(s)])

(***************************************************************************)
(* C24                                                                     *)
(***************************************************************************)
\* The result of the last poll_next of subscriber s that returned is a stream item
\* or Pending: Ready carries Some(value), a value of the field's type.
ItemOrPending(s) ==
    \/ sub[s].last = "none" /\ sub[s].got = None
    \/ sub[s].last = "Pending" /\ sub[s].got = None
    \/ /\ sub[s].last = "Ready" /\ IsSome(sub[s].got)
       /\ Unwrap(sub[s].got) \in TypeVals(FieldType(Chan(s)))

\* C24: a subscriber's stream never ends: whatever has happened, the owner not yet
\* constructed or already dropped included, every poll_next that has returned gave
\* Pending or Ready(Some(value)), never Ready(None); with no value ever written it
\* gave Pending; and the subscriber can be polled again.
C24_StreamNeverEnds ==
    \A s \in SubIds :
        Attached(s) =>
            /\ ItemOrPending(s)
            /\ written[Chan(s)].n = 0 => sub[s].last \in {"none", "Pending"}
            /\ ENABLED poll_next(s) \/ ENABLED poll_next_changed(s)

\* A subscriber created after the owner was dropped has yielded the last value and
\* its poll after that was Pending: the stream goes on without a writer.
C24_Witness ==
    /\ OwnerGone
    /\ \E s \in SubIds :
           /\ Attached(s) /\ sub[s].orphan
           /\ sub[s].nyields = 1 /\ sub[s].last = "Pending" /\ sub[s].parked
====
